---- MODULE Spec2Model ----
(***************************************************************************)
(* Model of stereo-es2gears.c: the DRM/GBM/EGL window system of the        *)
(* stereo gears demo.  The model follows main(): option processing,        *)
(* create_winsys / winsys_connect, main_loop (draw + swap) and the         *)
(* teardown through winsys_free / winsys_disconnect.                       *)
(*                                                                         *)
(* The display hardware is part of the state: the set of buffers locked    *)
(* from the GBM surface, the set of framebuffers registered with DRM, the  *)
(* framebuffer the controller scans out, the page flip the controller has  *)
(* accepted and the completion event queued on the device.                 *)
(*                                                                         *)
(* Environment assumptions: gbm_surface_lock_front_buffer always returns a *)
(* buffer (swap() does not check it), and a library call that is handed    *)
(* an identifier it does not know has no effect on the hardware state.     *)
(***************************************************************************)
EXTENDS Integers, Sequences, FiniteSets, TLC

\* Number of frames (calls of swap) a run of the model may start.
MaxFrames == 3

NULL == "NULL"

\* Scanout value of a controller that still has its pre-existing
\* configuration (it scans no framebuffer of this pipeline).
Prior == 0

EXIT_SUCCESS == 0
EXIT_FAILURE == 1

\* The resources owned by struct stereo_winsys and its members.
Res == {"fd", "dev", "saved_crtc", "context", "gbm", "edpy",
        "gbm_surface", "egl_surface", "egl_context"}

VARIABLES
    pc,               \* position of the single thread in main()
    quit,             \* static int quit
    ret,              \* main's ret
    winsys_live,      \* the struct stereo_winsys is allocated
    winsys_frees,     \* number of free(winsys)
    data_winsys,      \* data.winsys
    winsys_fd,        \* winsys->fd
    winsys_dev,       \* winsys->dev
    winsys_context,   \* winsys->context
    saved_crtc,       \* dev->saved_crtc
    saved_buffer_id,  \* dev->saved_crtc->buffer_id
    pending_swap,     \* dev->pending_swap
    current_fb_id,    \* context->current_fb_id
    current_bo,       \* context->current_bo
    bo,               \* swap(): local bo
    fb_id,            \* swap(): local fb_id
    locked,           \* buffers locked from the GBM surface
    registered,       \* framebuffers registered with DRM
    scanout,          \* framebuffer the controller scans (Prior: none of ours)
    mode_set,         \* the chosen mode is applied to the controller
    flip_target,      \* framebuffer of the accepted, uncompleted page flip
    flip_event,       \* page-flip completion events queued on the device
    next_id,          \* number of buffers locked so far
    acq,              \* per resource: number of acquisitions
    rel,              \* per resource: number of releases
    stat,             \* record of counters and flags about the run so far
    \* find_mode, run on its own
    conn_modes,       \* conn->modes (conn->count_modes is its length)
    stereo_layout,    \* options->stereo_layout
    find_i,           \* find_mode: i
    old_mode,         \* find_mode: old_mode, as an index into conn_modes
    dev_mode,         \* dev->mode
    find_pc,          \* position in find_mode
    \* get_layout_for_mode, run on its own
    lay_mode,         \* the mode argument
    layout,           \* *layout
    lay_pc,           \* position in get_layout_for_mode
    \* stereo_prepare_dev, run on its own
    connectors,       \* the connectors of res->connectors, in order
    opt_connector,    \* options->connector
    get_i,            \* get_connector: i
    conn,             \* the connector get_connector returned, as an index
    prep_pc,          \* position in stereo_prepare_dev
    \* stereo_find_crtc, run on its own
    conn_encoder,     \* conn->encoder_id and the encoder it names
    conn_encoders,    \* the encoders conn->encoders names, in order
    res_crtcs,        \* res->crtcs (res->count_crtcs is its length)
    crtc_i,           \* stereo_find_crtc: i
    dev_crtc,         \* dev->crtc
    enc_live,         \* encoder objects obtained and not freed
    freed_reads,      \* reads of a field of a freed encoder object
    crtc_pc           \* position in stereo_find_crtc

\* The variables of the pipeline (main and what it calls).
pipeVars == <<pc, quit, ret, winsys_live, winsys_frees, data_winsys, winsys_fd,
              winsys_dev, winsys_context, saved_crtc, saved_buffer_id,
              pending_swap, current_fb_id, current_bo, bo, fb_id, locked,
              registered, scanout, mode_set, flip_target, flip_event, next_id,
              acq, rel, stat>>

selVars == <<conn_modes, stereo_layout, find_i, old_mode, dev_mode, find_pc>>

layVars == <<lay_mode, layout, lay_pc>>

prepVars == <<connectors, opt_connector, get_i, conn, prep_pc>>

\* The variables of the functions that are also run on their own.
crtcVars == <<conn_encoder, conn_encoders, res_crtcs, crtc_i, dev_crtc,
              enc_live, freed_reads, crtc_pc>>

pureVars == <<selVars, layVars, prepVars, crtcVars>>

vars == <<pipeVars, pureVars>>

progVars == <<winsys_live, winsys_frees, data_winsys, winsys_fd, winsys_dev,
              winsys_context, saved_crtc, saved_buffer_id, pending_swap,
              current_fb_id, current_bo, bo, fb_id>>

hwVars == <<locked, registered, scanout, mode_set, flip_target, flip_event,
            next_id>>

\* Values an uninitialised word of the xmalloc'ed struct gbm_context may
\* hold: zero, the identifier the first buffer of the run will get, or a
\* value that names nothing.
UninitValues == {0, 1, -1}

\* The pipeline before main's first statement.
PipelineInit ==
    /\ pc = "options"
    /\ quit = 0
    /\ ret = EXIT_SUCCESS
    /\ winsys_live = FALSE
    /\ winsys_frees = 0
    /\ data_winsys = NULL
    /\ winsys_fd = -1
    /\ winsys_dev = NULL
    /\ winsys_context = NULL
    /\ saved_crtc = NULL
    /\ saved_buffer_id = 0
    /\ pending_swap = 0
    /\ current_fb_id = 0
    /\ current_bo = 0
    /\ bo = 0
    /\ fb_id = 0
    /\ locked = {}
    /\ registered = {}
    /\ scanout = Prior
    /\ mode_set = FALSE
    /\ flip_target = 0
    /\ flip_event = 0
    /\ next_id = 0
    /\ acq = [r \in Res |-> 0]
    /\ rel = [r \in Res |-> 0]
    /\ stat = [setup_failed |-> FALSE,   \* a step of winsys_connect failed
               loop_entered |-> FALSE,   \* main_loop was called
               torn |-> FALSE,           \* winsys_disconnect has run
               modeset_calls |-> 0,      \* drmModeSetCrtc(chosen mode) calls
               modeset_ok |-> 0,         \* ... that succeeded
               flip_calls |-> 0,         \* drmModePageFlip calls
               presents_done |-> 0,      \* swap() calls that ran to the end
               after_quit |-> 0,         \* swap() calls begun with quit set
               restores |-> 0,           \* restoring drmModeSetCrtc calls
               ev_ret |-> 0,             \* last result of drmHandleEvent
               invalid_release |-> FALSE,\* a never-locked buffer was released
               bad_args |-> FALSE,       \* the arguments were malformed
               d_given |-> FALSE,        \* the arguments gave -d <path>
               \* about the call of swap() in progress (0, FALSE outside)
               call_modesets |-> 0,      \* its drmModeSetCrtc calls
               call_flips |-> 0,         \* its drmModePageFlip calls
               call_captured |-> FALSE,  \* it replaced dev->saved_crtc
               \* about stereo_prepare_context
               ctx_calls |-> <<>>,       \* the calls it made, in order
               ctx_released |-> <<>>,    \* what its error path released
               teardown |-> <<>>]        \* what winsys_disconnect released

\* A drmModeModeInfo and a struct mode_layout with every field zero.
ZeroMode == [flags |-> "NONE", hdisplay |-> 0, vdisplay |-> 0, vtotal |-> 0]

ZeroLayout ==
    [buffer_width |-> 0, buffer_height |-> 0, eye_width |-> 0,
     eye_height |-> 0, virtual_eye_width |-> 0, virtual_eye_height |-> 0,
     right_eye_x |-> 0, left_eye_y |-> 0]

\* find_mode is not being run on its own.
SelIdle ==
    /\ conn_modes = <<>>
    /\ stereo_layout = NULL
    /\ find_i = 0
    /\ old_mode = 0
    /\ dev_mode = ZeroMode
    /\ find_pc = "idle"

\* get_layout_for_mode is not being run on its own.
LayIdle ==
    /\ lay_mode = ZeroMode
    /\ layout = ZeroLayout
    /\ lay_pc = "idle"

\* stereo_prepare_dev is not being run on its own.
PrepIdle ==
    /\ connectors = <<>>
    /\ opt_connector = 0
    /\ get_i = 0
    /\ conn = 0
    /\ prep_pc = "idle"

\* stereo_find_crtc is not being run on its own.
CrtcIdle ==
    /\ conn_encoder = [encoder_id |-> 0, present |-> FALSE, crtc_id |-> 0]
    /\ conn_encoders = <<>>
    /\ res_crtcs = <<>>
    /\ crtc_i = 0
    /\ dev_crtc = 0
    /\ enc_live = 0
    /\ freed_reads = 0
    /\ crtc_pc = "idle"

Init ==
    /\ PipelineInit
    /\ SelIdle
    /\ LayIdle
    /\ PrepIdle
    /\ CrtcIdle

(***************************************************************************)
(* Setup: main, create_winsys, winsys_connect                              *)
(***************************************************************************)

\* Most arguments after argv[0].
MaxArgs == 3

\* The arguments of the model: the flags of the usage text, a flag that is
\* none of them, the end-of-options mark and a word that is no option.
ArgTokens == {"-h", "-c", "-l", "-d", "-x", "--", "arg"}

\* The argument vectors of at most n arguments.
ArgVectors(n) == UNION {[1..m -> ArgTokens] : m \in 0..n}

\* The scan of the arguments from argv[k] on, by the option syntax of the
\* usage text (-h, and -c, -d, -l with an argument), meets a flag that is
\* none of these, a flag without its argument, or an argument that
\* belongs to no flag, before it meets -h.
RECURSIVE Malformed(_, _)
Malformed(argv, k) ==
    IF k > Len(argv) THEN FALSE
    ELSE CASE argv[k] = "-h" -> FALSE
           [] argv[k] \in {"-c", "-d", "-l"} ->
                IF k = Len(argv) THEN TRUE ELSE Malformed(argv, k + 2)
           [] argv[k] = "--" -> k < Len(argv)
           [] OTHER -> TRUE

\* The arguments from argv[k] on are flags of the usage text that take an
\* argument (-c, -d, -l), each followed by a word that is its argument.
RECURSIVE FlagPairs(_, _)
FlagPairs(argv, k) ==
    IF k > Len(argv) THEN TRUE
    ELSE /\ argv[k] \in {"-c", "-d", "-l"}
         /\ k < Len(argv)
         /\ argv[k + 1] = "arg"
         /\ FlagPairs(argv, k + 2)

\* The arguments are -d <path>, alone or among -c <n> and -l <layout>.
DeviceGiven(argv) ==
    /\ FlagPairs(argv, 1)
    /\ \E k \in 1..Len(argv) : k % 2 = 1 /\ argv[k] = "-d"

\* process_options: while ((opt = getopt(argc, argv, "-c:l:h")) != -1),
\* from argv[k] on.  getopt ends the scan (-1) at the end of the vector
\* and at "--", whatever follows it; -h calls usage, which exits; -c and
\* -l take the next argument, whatever it is, and getopt yields '?' when
\* there is none; -d and -x are not in the option string and yield '?';
\* a word that is no option yields 1.  '?' and 1 return EXIT_FAILURE.
RECURSIVE getopt_loop(_, _)
getopt_loop(argv, k) ==
    IF k > Len(argv) THEN "return_0"
    ELSE CASE argv[k] = "--" -> "return_0"
           [] argv[k] = "-h" -> "usage"
           [] argv[k] \in {"-c", "-l"} ->
                IF k = Len(argv) THEN "return_EXIT_FAILURE"
                ELSE getopt_loop(argv, k + 2)
           [] OTHER -> "return_EXIT_FAILURE"

\* main's call of process_options: a nonzero result goes to out with that
\* result as the exit status; usage() ends the process with exit(0).
ProcessOptions ==
    /\ pc = "options"
    /\ \E argv \in ArgVectors(MaxArgs) :
         LET r == getopt_loop(argv, 1)
         IN  /\ pc' = CASE r = "return_0" -> "create_winsys"
                        [] r = "usage" -> "exit"
                        [] OTHER -> "out"
             /\ ret' = IF r = "return_EXIT_FAILURE" THEN EXIT_FAILURE
                       ELSE EXIT_SUCCESS
             /\ stat' = [stat EXCEPT !.bad_args = Malformed(argv, 1),
                                     !.d_given = DeviceGiven(argv)]
    /\ UNCHANGED <<quit, progVars, hwVars, acq, rel>>
    /\ UNCHANGED pureVars

\* create_winsys: xmalloc + memset of the winsys, fd = -1.
CreateWinsys ==
    /\ pc = "create_winsys"
    /\ pc' = "open"
    /\ winsys_live' = TRUE
    /\ winsys_fd' = -1
    /\ winsys_dev' = NULL
    /\ winsys_context' = NULL
    /\ UNCHANGED <<quit, ret, winsys_frees, data_winsys, saved_crtc,
                   saved_buffer_id, pending_swap, current_fb_id, current_bo,
                   bo, fb_id, hwVars, acq, rel, stat>>
    /\ UNCHANGED pureVars

\* The ways stereo_open ends.
OpenOutcomes == {"ok", "open_failed", "cap_failed"}

\* stereo_open: open(card), then drmSetClientCap(STEREO_3D); a refused
\* capability closes the descriptor again and *out stays unset.
StereoOpen ==
    /\ pc = "open"
    /\ \E o \in OpenOutcomes :
         /\ winsys_fd' = IF o = "ok" THEN 3 ELSE winsys_fd
         /\ acq' = IF o = "open_failed" THEN acq
                   ELSE [acq EXCEPT !["fd"] = @ + 1]
         /\ rel' = IF o = "cap_failed" THEN [rel EXCEPT !["fd"] = @ + 1]
                   ELSE rel
         /\ pc' = IF o = "ok" THEN "prepare_dev" ELSE "connect_error"
         /\ stat' = IF o = "ok" THEN stat
                    ELSE [stat EXCEPT !.setup_failed = TRUE]
    /\ UNCHANGED <<quit, ret, winsys_live, winsys_frees, data_winsys,
                   winsys_dev, winsys_context, saved_crtc, saved_buffer_id,
                   pending_swap, current_fb_id, current_bo, bo, fb_id, hwVars>>
    /\ UNCHANGED pureVars

\* The ways stereo_prepare_dev ends: the resources cannot be retrieved, no
\* connector is returned, the connector is not connected, no mode is
\* chosen, no controller is found, or the device structure is returned.
DevOutcomes == {"ok", "no_resources", "no_connector", "not_connected",
                "no_mode", "no_crtc"}

\* stereo_prepare_dev: the device structure is xmalloc'ed and zeroed
\* (saved_crtc = NULL, pending_swap = 0) once a connector is there, and
\* freed again when stereo_setup_dev fails.
StereoPrepareDev ==
    /\ pc = "prepare_dev"
    /\ \E o \in DevOutcomes :
         LET allocated == o \notin {"no_resources", "no_connector"}
         IN  /\ winsys_dev' = IF o = "ok" THEN "dev" ELSE NULL
             /\ acq' = IF allocated THEN [acq EXCEPT !["dev"] = @ + 1]
                       ELSE acq
             /\ rel' = IF allocated /\ o # "ok"
                       THEN [rel EXCEPT !["dev"] = @ + 1] ELSE rel
             /\ pc' = IF o = "ok" THEN "prepare_context" ELSE "connect_error"
             /\ stat' = IF o = "ok" THEN stat
                        ELSE [stat EXCEPT !.setup_failed = TRUE]
    /\ saved_crtc' = NULL
    /\ saved_buffer_id' = 0
    /\ pending_swap' = 0
    /\ UNCHANGED <<quit, ret, winsys_live, winsys_frees, data_winsys,
                   winsys_fd, winsys_context, current_fb_id, current_bo, bo,
                   fb_id, hwVars>>
    /\ UNCHANGED pureVars

\* The steps of stereo_prepare_context, in order, and what each acquires:
\* 1 gbm_create_device, 2 eglGetDisplay, 3 eglInitialize,
\* 4 create_gbm_surface, 5 choose_egl_config, 6 create_egl_surface,
\* 7 create_egl_context, 8 eglMakeCurrent.
ContextSteps == 8

\* The resource step k acquires (NULL: none).
StepResource(k) ==
    CASE k = 1 -> "gbm"
      [] k = 3 -> "edpy"
      [] k = 4 -> "gbm_surface"
      [] k = 6 -> "egl_surface"
      [] k = 7 -> "egl_context"
      [] OTHER -> NULL

\* What the steps before step k have acquired, the context itself included.
AcquiredBefore(k) ==
    {"context"} \cup ({StepResource(j) : j \in 1..(k - 1)} \ {NULL})

\* The calls of stereo_prepare_context after the xmalloc, in order.
ContextCalls ==
    <<"gbm_create_device", "eglGetDisplay", "eglInitialize",
      "create_gbm_surface", "choose_egl_config", "create_egl_surface",
      "create_egl_context", "eglMakeCurrent">>

\* The goto chain with a failing create_gbm_surface entering it at
\* error_gbm_surface.
UnwindOrder_surface_label(k) ==
    LET label == CASE k = 1 -> 0
                   [] k \in {2, 3} -> 1
                   [] k \in {4, 5, 6} -> 3
                   [] k = 7 -> 4
                   [] OTHER -> 5
    IN  (IF label >= 5 THEN <<"egl_context">> ELSE <<>>)
        \o (IF label >= 4 THEN <<"egl_surface">> ELSE <<>>)
        \o (IF label >= 3 THEN <<"gbm_surface">> ELSE <<>>)
        \o (IF label >= 2 THEN <<"edpy">> ELSE <<>>)
        \o (IF label >= 1 THEN <<"gbm">> ELSE <<>>)
        \o <<"context">>

\* What the goto chain entered by a failure of step k releases, in the
\* order of the labels: error_egl_context (eglDestroyContext),
\* error_egl_surface (eglDestroySurface), error_gbm_surface
\* (gbm_surface_destroy), error_egl_display (eglTerminate),
\* error_gbm_device (gbm_device_destroy), error (free(context)).
UnwindOrder(k) ==
    LET label == CASE k = 1 -> 0           \* error
                   [] k \in {2, 3} -> 1    \* error_gbm_device
                   [] k = 4 -> 2           \* error_egl_display
                   [] k \in {5, 6} -> 3    \* error_gbm_surface
                   [] k = 7 -> 4           \* error_egl_surface
                   [] OTHER -> 5           \* error_egl_context
    IN  (IF label >= 5 THEN <<"egl_context">> ELSE <<>>)
        \o (IF label >= 4 THEN <<"egl_surface">> ELSE <<>>)
        \o (IF label >= 3 THEN <<"gbm_surface">> ELSE <<>>)
        \o (IF label >= 2 THEN <<"edpy">> ELSE <<>>)
        \o (IF label >= 1 THEN <<"gbm">> ELSE <<>>)
        \o <<"context">>

\* What the goto chain entered by a failure of step k releases.
Unwound(k) == {UnwindOrder(k)[i] : i \in 1..Len(UnwindOrder(k))}

Bump(f, S) == [r \in Res |-> IF r \in S THEN f[r] + 1 ELSE f[r]]

\* stereo_prepare_context: step k fails (k = 0: none does).  The context is
\* xmalloc'ed and not cleared: current_fb_id and current_bo are whatever
\* the memory held.
StereoPrepareContext ==
    /\ pc = "prepare_context"
    /\ \E k \in 0..ContextSteps :
         IF k = 0
         THEN /\ acq' = Bump(acq, AcquiredBefore(ContextSteps + 1))
              /\ rel' = rel
              /\ winsys_context' = "context"
              /\ \E f \in UninitValues, b \in UninitValues :
                   /\ current_fb_id' = f
                   /\ current_bo' = b
              /\ pc' = "connected"
              /\ stat' = [stat EXCEPT !.ctx_calls = ContextCalls]
         ELSE /\ acq' = Bump(acq, AcquiredBefore(k))
              /\ rel' = Bump(rel, Unwound(k))
              /\ winsys_context' = NULL
              /\ UNCHANGED <<current_fb_id, current_bo>>
              /\ pc' = "connect_error"
              /\ stat' = [stat EXCEPT
                            !.setup_failed = TRUE,
                            !.ctx_calls = SubSeq(ContextCalls, 1, k),
                            !.ctx_released = UnwindOrder(k)]
    /\ UNCHANGED <<quit, ret, winsys_live, winsys_frees, data_winsys,
                   winsys_fd, winsys_dev, saved_crtc, saved_buffer_id,
                   pending_swap, bo, fb_id, hwVars>>
    /\ UNCHANGED pureVars

(***************************************************************************)
(* Teardown: winsys_disconnect and what it calls                           *)
(***************************************************************************)

\* restore_saved_crtc without dev->saved_crtc = NULL.
restore_saved_crtc_keeps(saved, buf, scan, applied, reg, ok) ==
    IF saved # NULL
    THEN [saved |-> saved,
          scanout |-> IF ok /\ (buf = Prior \/ buf \in reg) THEN buf
                      ELSE scan,
          mode_set |-> IF ok /\ (buf = Prior \/ buf \in reg)
                       THEN buf # Prior ELSE applied,
          calls |-> 1]
    ELSE [saved |-> saved, scanout |-> scan, mode_set |-> applied,
          calls |-> 0]

\* restore_saved_crtc: with a capture, drmModeSetCrtc writes it back (ok:
\* the call succeeds, which takes the captured buffer_id to name a
\* framebuffer that still exists; its result is not looked at) and the
\* capture is freed and cleared.  buf is the captured buffer_id: Prior when
\* the capture was taken before the chosen mode was applied, else the
\* framebuffer of the pipeline scanned at the capture, with the chosen
\* mode.  Yields the capture, the scanout, whether the chosen mode is
\* still applied and the number of restoring calls made.
restore_saved_crtc(saved, buf, scan, applied, reg, ok) ==
    IF saved # NULL
    THEN [saved |-> NULL,
          scanout |-> IF ok /\ (buf = Prior \/ buf \in reg) THEN buf
                      ELSE scan,
          mode_set |-> IF ok /\ (buf = Prior \/ buf \in reg)
                       THEN buf # Prior ELSE applied,
          calls |-> 1]
    ELSE [saved |-> saved, scanout |-> scan, mode_set |-> applied,
          calls |-> 0]

\* free_current_bo: drmModeRmFB of a nonzero current_fb_id and
\* gbm_surface_release_buffer of a non-null current_bo; both fields are
\* cleared.  Yields the framebuffers and the buffers left, and whether a
\* buffer that was not locked was released.
free_current_bo(cur_fb, cur_bo, reg, lck) ==
    [registered |-> IF cur_fb # 0 THEN reg \ {cur_fb} ELSE reg,
     locked |-> IF cur_bo # 0 THEN lck \ {cur_bo} ELSE lck,
     invalid |-> cur_bo # 0 /\ cur_bo \notin lck]

\* What stereo_cleanup_context destroys besides the current pair.
ContextResources ==
    {"egl_context", "egl_surface", "gbm_surface", "edpy", "gbm", "context"}

\* What stereo_cleanup_context releases, in order: restore_saved_crtc
\* (restored: there was a capture), free_current_bo, eglMakeCurrent of
\* nothing, eglDestroyContext, eglDestroySurface, gbm_surface_destroy,
\* eglTerminate, gbm_device_destroy, free(context).
cleanup_context_order(restored) ==
    (IF restored THEN <<"saved_crtc">> ELSE <<>>)
    \o <<"current_pair", "egl_context", "egl_surface", "gbm_surface", "edpy",
         "gbm", "context">>

\* winsys_disconnect: each member is cleaned up if it is set and then
\* cleared.  ok: the restoring drmModeSetCrtc succeeds.
winsys_disconnect(ok) ==
    LET hasContext == winsys_context # NULL
        hasDev == winsys_dev # NULL
        hasFd == winsys_fd # -1
        \* stereo_cleanup_context: restore_saved_crtc, free_current_bo
        r1 == IF hasContext
              THEN restore_saved_crtc(saved_crtc, saved_buffer_id, scanout,
                                      mode_set, registered, ok)
              ELSE [saved |-> saved_crtc, scanout |-> scanout,
                    mode_set |-> mode_set, calls |-> 0]
        f == IF hasContext
             THEN free_current_bo(current_fb_id, current_bo, registered,
                                  locked)
             ELSE [registered |-> registered, locked |-> locked,
                   invalid |-> FALSE]
        \* stereo_cleanup_dev: restore_saved_crtc, free(dev)
        r2 == IF hasDev
              THEN restore_saved_crtc(r1.saved, saved_buffer_id, r1.scanout,
                                      r1.mode_set, f.registered, ok)
              ELSE [saved |-> r1.saved, scanout |-> r1.scanout,
                    mode_set |-> r1.mode_set, calls |-> 0]
        calls == r1.calls + r2.calls
        freed == (IF hasContext THEN ContextResources ELSE {})
                 \cup (IF hasDev THEN {"dev"} ELSE {})
                 \cup (IF hasFd THEN {"fd"} ELSE {})
                 \cup (IF calls > 0 THEN {"saved_crtc"} ELSE {})
    IN  /\ winsys_context' = NULL
        /\ winsys_dev' = NULL
        /\ winsys_fd' = -1
        /\ saved_crtc' = r2.saved
        /\ saved_buffer_id' = IF r2.saved = NULL THEN 0 ELSE saved_buffer_id
        /\ scanout' = r2.scanout
        /\ mode_set' = r2.mode_set
        /\ current_fb_id' = IF hasContext THEN 0 ELSE current_fb_id
        /\ current_bo' = IF hasContext THEN 0 ELSE current_bo
        /\ registered' = f.registered
        /\ locked' = f.locked
        /\ rel' = [r \in Res |->
                     IF r = "saved_crtc" THEN rel[r] + calls
                     ELSE IF r \in freed THEN rel[r] + 1 ELSE rel[r]]
        /\ stat' = [stat EXCEPT
                      !.torn = TRUE,
                      !.restores = @ + calls,
                      !.invalid_release = @ \/ f.invalid,
                      !.teardown =
                         @ \o (IF hasContext
                               THEN cleanup_context_order(r1.calls > 0)
                               ELSE <<>>)
                           \o (IF hasDev
                               THEN (IF r2.calls > 0 THEN <<"saved_crtc">>
                                     ELSE <<>>) \o <<"dev">>
                               ELSE <<>>)
                           \o (IF hasFd THEN <<"fd">> ELSE <<>>)]
        /\ UNCHANGED <<quit, pending_swap, bo, fb_id, flip_target,
                       flip_event, next_id, acq>>

\* winsys_connect's error path returning 0 after winsys_disconnect.
ConnectError_ReturnsZero ==
    /\ pc = "connect_error"
    /\ \E ok \in BOOLEAN : winsys_disconnect(ok)
    /\ pc' = "connected"
    /\ UNCHANGED <<ret, winsys_live, winsys_frees, data_winsys>>
    /\ UNCHANGED pureVars

\* winsys_connect, label error: winsys_disconnect, then the error is
\* returned to create_winsys.
ConnectError ==
    /\ pc = "connect_error"
    /\ \E ok \in BOOLEAN : winsys_disconnect(ok)
    /\ pc' = "create_failed"
    /\ UNCHANGED <<ret, winsys_live, winsys_frees, data_winsys>>
    /\ UNCHANGED pureVars

\* create_winsys returning the winsys although winsys_connect failed.
CreateWinsysFailed_Ignored ==
    /\ pc = "create_failed"
    /\ pc' = "connected"
    /\ UNCHANGED <<quit, ret, progVars, hwVars, acq, rel, stat>>
    /\ UNCHANGED pureVars

\* create_winsys on a failed winsys_connect: winsys_free (winsys_disconnect
\* again, free) and NULL is returned; main sets EXIT_FAILURE and goes to out.
CreateWinsysFailed ==
    /\ pc = "create_failed"
    /\ \E ok \in BOOLEAN : winsys_disconnect(ok)
    /\ winsys_live' = FALSE
    /\ winsys_frees' = winsys_frees + 1
    /\ data_winsys' = NULL
    /\ ret' = EXIT_FAILURE
    /\ pc' = "out"
    /\ UNCHANGED pureVars

\* create_winsys on success returns the winsys; create_renderer (xmalloc
\* aborts rather than fail) and main_loop's sigaction follow.
CreateWinsysOk ==
    /\ pc = "connected"
    /\ data_winsys' = "winsys"
    /\ stat' = [stat EXCEPT !.loop_entered = TRUE]
    /\ pc' = "loop_top"
    /\ UNCHANGED <<quit, ret, winsys_live, winsys_frees, winsys_fd, winsys_dev,
                   winsys_context, saved_crtc, saved_buffer_id, pending_swap,
                   current_fb_id, current_bo, bo, fb_id, hwVars, acq, rel>>
    /\ UNCHANGED pureVars

\* main, label out: winsys_free when data.winsys is set, then return ret.
MainOut ==
    /\ pc = "out"
    /\ IF data_winsys # NULL
       THEN /\ \E ok \in BOOLEAN : winsys_disconnect(ok)
            /\ winsys_live' = FALSE
            /\ winsys_frees' = winsys_frees + 1
       ELSE UNCHANGED <<winsys_live, winsys_frees, winsys_fd, winsys_dev,
                        winsys_context, saved_crtc, saved_buffer_id,
                        pending_swap, current_fb_id, current_bo, bo, fb_id,
                        hwVars, acq, rel, stat, quit>>
    /\ pc' = "exit"
    /\ UNCHANGED <<ret, data_winsys>>
    /\ UNCHANGED pureVars

(***************************************************************************)
(* The render loop: main_loop, swap, wait_swap                             *)
(***************************************************************************)

swapVars == <<winsys_live, winsys_frees, data_winsys, winsys_fd, winsys_dev,
              winsys_context, ret, acq, rel>>

\* sigint_handler: the signal may arrive at any point while main_loop has
\* the handler installed.
SigInt ==
    /\ pc \in {"loop_top", "draw", "swap", "addfb", "set_initial_crtc",
               "page_flip", "wait_swap", "swap_finish"}
    /\ quit = 0
    /\ quit' = 1
    /\ UNCHANGED <<pc, ret, progVars, hwVars, acq, rel, stat>>
    /\ UNCHANGED pureVars

\* main_loop: while (!quit), the flag is clear and an iteration begins.
LoopContinue ==
    /\ pc = "loop_top"
    /\ quit = 0
    /\ next_id < MaxFrames
    /\ pc' = "draw"
    /\ UNCHANGED <<quit, ret, progVars, hwVars, acq, rel, stat>>
    /\ UNCHANGED pureVars

\* main_loop: while (!quit), the flag is set: the old signal action is put
\* back and main_loop returns to main, which falls through to out.
LoopExit ==
    /\ pc = "loop_top"
    /\ quit # 0
    /\ pc' = "out"
    /\ UNCHANGED <<quit, ret, progVars, hwVars, acq, rel, stat>>
    /\ UNCHANGED pureVars

\* draw(data->renderer): renders into the back buffer of the surface.
Draw ==
    /\ pc = "draw"
    /\ pc' = "swap"
    /\ UNCHANGED <<quit, ret, progVars, hwVars, acq, rel, stat>>
    /\ UNCHANGED pureVars

\* swap: eglSwapBuffers and gbm_surface_lock_front_buffer.
SwapLock ==
    /\ pc = "swap"
    /\ next_id' = next_id + 1
    /\ bo' = next_id + 1
    /\ locked' = locked \cup {next_id + 1}
    /\ stat' = [stat EXCEPT !.after_quit = IF quit # 0 THEN @ + 1 ELSE @]
    /\ pc' = "addfb"
    /\ UNCHANGED <<quit, swapVars, saved_crtc, saved_buffer_id, pending_swap,
                   current_fb_id, current_bo, fb_id, registered, scanout,
                   mode_set, flip_target, flip_event>>
    /\ UNCHANGED pureVars

\* swap: drmModeAddFB.  A failure is reported and swap returns; otherwise
\* the first-frame modeset is due when dev->saved_crtc is NULL.
SwapAddFB ==
    /\ pc = "addfb"
    /\ \E ok \in BOOLEAN :
         IF ok
         THEN /\ fb_id' = bo
              /\ registered' = registered \cup {bo}
              /\ pc' = IF saved_crtc = NULL THEN "set_initial_crtc"
                       ELSE "page_flip"
              /\ bo' = bo
         ELSE /\ fb_id' = 0
              /\ registered' = registered
              /\ pc' = "loop_top"
              /\ bo' = 0
    /\ UNCHANGED <<quit, swapVars, saved_crtc, saved_buffer_id, pending_swap,
                   current_fb_id, current_bo, locked, scanout, mode_set,
                   flip_target, flip_event, next_id, stat>>
    /\ UNCHANGED pureVars

\* set_initial_crtc after which swap returns without a page flip, the new
\* pair becoming the current one.
SetInitialCrtc_NoFlip ==
    /\ pc = "set_initial_crtc"
    /\ \E got \in BOOLEAN, ok \in BOOLEAN :
         /\ saved_crtc' = IF got THEN "crtc" ELSE NULL
         /\ saved_buffer_id' = IF got THEN scanout ELSE 0
         /\ acq' = IF got THEN [acq EXCEPT !["saved_crtc"] = @ + 1] ELSE acq
         /\ scanout' = IF ok THEN fb_id ELSE scanout
         /\ mode_set' = IF ok THEN TRUE ELSE mode_set
         /\ stat' = [stat EXCEPT !.modeset_calls = @ + 1,
                                 !.modeset_ok = IF ok THEN @ + 1 ELSE @,
                                 !.call_modesets = IF ok THEN @ + 1 ELSE 0,
                                 !.call_captured = ok /\ got]
         /\ pc' = IF ok THEN "swap_finish" ELSE "loop_top"
         /\ bo' = IF ok THEN bo ELSE 0
         /\ fb_id' = IF ok THEN fb_id ELSE 0
    /\ UNCHANGED <<quit, ret, winsys_live, winsys_frees, data_winsys,
                   winsys_fd, winsys_dev, winsys_context, rel, pending_swap,
                   current_fb_id, current_bo, locked, registered,
                   flip_target, flip_event, next_id>>
    /\ UNCHANGED pureVars

\* set_initial_crtc: dev->saved_crtc = drmModeGetCrtc (got: a capture is
\* returned; it holds what the controller scans at this moment), then
\* drmModeSetCrtc of the chosen mode with fb_id (ok: it succeeds).  A
\* failed modeset makes swap return.
SetInitialCrtc ==
    /\ pc = "set_initial_crtc"
    /\ \E got \in BOOLEAN, ok \in BOOLEAN :
         /\ saved_crtc' = IF got THEN "crtc" ELSE NULL
         /\ saved_buffer_id' = IF got THEN scanout ELSE 0
         /\ acq' = IF got THEN [acq EXCEPT !["saved_crtc"] = @ + 1] ELSE acq
         /\ scanout' = IF ok THEN fb_id ELSE scanout
         /\ mode_set' = IF ok THEN TRUE ELSE mode_set
         /\ stat' = [stat EXCEPT !.modeset_calls = @ + 1,
                                 !.modeset_ok = IF ok THEN @ + 1 ELSE @,
                                 !.call_modesets = IF ok THEN @ + 1 ELSE 0,
                                 !.call_captured = ok /\ got]
         /\ pc' = IF ok THEN "page_flip" ELSE "loop_top"
         /\ bo' = IF ok THEN bo ELSE 0
         /\ fb_id' = IF ok THEN fb_id ELSE 0
    /\ UNCHANGED <<quit, ret, winsys_live, winsys_frees, data_winsys,
                   winsys_fd, winsys_dev, winsys_context, rel, pending_swap,
                   current_fb_id, current_bo, locked, registered,
                   flip_target, flip_event, next_id>>
    /\ UNCHANGED pureVars

\* swap: drmModePageFlip with DRM_MODE_PAGE_FLIP_EVENT.  A rejected request
\* makes swap return; an accepted one sets dev->pending_swap.
SwapPageFlip ==
    /\ pc = "page_flip"
    /\ \E ok \in BOOLEAN :
         /\ flip_target' = IF ok THEN fb_id ELSE flip_target
         /\ pending_swap' = IF ok THEN 1 ELSE pending_swap
         /\ pc' = IF ok THEN "wait_swap" ELSE "loop_top"
         /\ bo' = IF ok THEN bo ELSE 0
         /\ fb_id' = IF ok THEN fb_id ELSE 0
         /\ stat' = [stat EXCEPT !.flip_calls = @ + 1,
                                 !.call_flips = IF ok THEN @ + 1 ELSE 0,
                                 !.call_modesets = IF ok THEN @ ELSE 0,
                                 !.call_captured = ok /\ @]
    /\ UNCHANGED <<quit, swapVars, saved_crtc, saved_buffer_id, current_fb_id,
                   current_bo, locked, registered, scanout, mode_set,
                   flip_event, next_id>>
    /\ UNCHANGED pureVars

\* The controller completes the accepted flip at a vertical blank: it scans
\* the new framebuffer and queues the completion event.
VBlank ==
    /\ flip_target # 0
    /\ scanout' = flip_target
    /\ flip_target' = 0
    /\ flip_event' = flip_event + 1
    /\ UNCHANGED <<pc, quit, ret, progVars, locked, registered, mode_set,
                   next_id, acq, rel, stat>>
    /\ UNCHANGED pureVars

\* wait_swap: drmHandleEvent reads the completion event and calls
\* page_flip_handler, which clears dev->pending_swap.
WaitSwapEvent ==
    /\ pc = "wait_swap"
    /\ pending_swap # 0
    /\ flip_event > 0
    /\ flip_event' = flip_event - 1
    /\ pending_swap' = 0
    /\ stat' = [stat EXCEPT !.ev_ret = 0]
    /\ UNCHANGED <<pc, quit, swapVars, saved_crtc, saved_buffer_id,
                   current_fb_id, current_bo, bo, fb_id, locked, registered,
                   scanout, mode_set, flip_target, next_id>>
    /\ UNCHANGED pureVars

\* wait_swap: drmHandleEvent fails (the read on the device reports an
\* error); its result is dropped and the loop tests pending_swap again.
WaitSwapError ==
    /\ pc = "wait_swap"
    /\ pending_swap # 0
    /\ stat' = [stat EXCEPT !.ev_ret = -1]
    /\ UNCHANGED <<pc, quit, ret, progVars, hwVars, acq, rel>>
    /\ UNCHANGED pureVars

\* wait_swap returning without testing dev->pending_swap.
WaitSwapDone_NoWait ==
    /\ pc = "wait_swap"
    /\ pc' = "swap_finish"
    /\ UNCHANGED <<quit, ret, progVars, hwVars, acq, rel, stat>>
    /\ UNCHANGED pureVars

\* wait_swap: while (dev->pending_swap) ends.
WaitSwapDone ==
    /\ pc = "wait_swap"
    /\ pending_swap = 0
    /\ pc' = "swap_finish"
    /\ UNCHANGED <<quit, ret, progVars, hwVars, acq, rel, stat>>
    /\ UNCHANGED pureVars

\* swap: free_current_bo, then the new pair becomes the current one.
SwapFinish ==
    /\ pc = "swap_finish"
    /\ LET f == free_current_bo(current_fb_id, current_bo, registered,
                                locked)
       IN  /\ registered' = f.registered
           /\ locked' = f.locked
           /\ stat' = [stat EXCEPT
                         !.presents_done = @ + 1,
                         !.invalid_release = @ \/ f.invalid,
                         !.call_modesets = 0,
                         !.call_flips = 0,
                         !.call_captured = FALSE]
    /\ current_bo' = bo
    /\ current_fb_id' = fb_id
    /\ bo' = 0
    /\ fb_id' = 0
    /\ pc' = "loop_top"
    /\ UNCHANGED <<quit, swapVars, saved_crtc, saved_buffer_id, pending_swap,
                   scanout, mode_set, flip_target, flip_event, next_id>>
    /\ UNCHANGED pureVars

Next ==
    \/ ProcessOptions
    \/ CreateWinsys
    \/ StereoOpen
    \/ StereoPrepareDev
    \/ StereoPrepareContext
    \/ ConnectError
    \/ CreateWinsysFailed
    \/ CreateWinsysOk
    \/ SigInt
    \/ LoopContinue
    \/ LoopExit
    \/ Draw
    \/ SwapLock
    \/ SwapAddFB
    \/ SetInitialCrtc
    \/ SwapPageFlip
    \/ VBlank
    \/ WaitSwapEvent
    \/ WaitSwapError
    \/ WaitSwapDone
    \/ SwapFinish
    \/ MainOut

Spec == Init /\ [][Next]_vars

\* The scheduling of the process and of the hardware: the thread keeps
\* running, an accepted flip completes, and a queued completion event is
\* read.  The signal and the failures of calls are not forced to happen.
Program ==
    \/ ProcessOptions \/ CreateWinsys \/ StereoOpen \/ StereoPrepareDev
    \/ StereoPrepareContext \/ ConnectError \/ CreateWinsysFailed
    \/ CreateWinsysOk \/ LoopContinue \/ LoopExit \/ Draw \/ SwapLock
    \/ SwapAddFB \/ SetInitialCrtc \/ SwapPageFlip \/ WaitSwapDone
    \/ SwapFinish \/ MainOut

FairSpec ==
    /\ Spec
    /\ WF_vars(Program)
    /\ WF_vars(VBlank)
    /\ WF_vars(WaitSwapEvent)

(***************************************************************************)
(* Mode selection: get_stereo_mode, get_mode_rank, is_chosen_mode,         *)
(* find_mode.  SelSpec runs find_mode on every list of modes up to         *)
(* MaxModes and every requested layout.  find_mode reads nothing of a mode *)
(* but flags & DRM_MODE_FLAG_3D_MASK, so the modes of a list differ in     *)
(* that field only and are told apart by their position.                   *)
(***************************************************************************)

\* Longest list of modes a connector advertises.
MaxModes == 3

\* The values of flags & DRM_MODE_FLAG_3D_MASK that drm_mode.h defines.
Packings ==
    {"NONE", "FRAME_PACKING", "FIELD_ALTERNATIVE", "LINE_ALTERNATIVE",
     "SIDE_BY_SIDE_FULL", "L_DEPTH", "L_DEPTH_GFX_GFX_DEPTH",
     "TOP_AND_BOTTOM", "SIDE_BY_SIDE_HALF"}

\* A value of the five-bit mask field that drm_mode.h does not define.
UNDEFINED_3D == "UNDEFINED_3D"

Tags == Packings \cup {UNDEFINED_3D}

stereo_modes ==
    << [mode_number |-> "NONE", short_name |-> "none"],
       [mode_number |-> "FRAME_PACKING", short_name |-> "fp"],
       [mode_number |-> "FIELD_ALTERNATIVE", short_name |-> "fa"],
       [mode_number |-> "LINE_ALTERNATIVE", short_name |-> "la"],
       [mode_number |-> "SIDE_BY_SIDE_FULL", short_name |-> "sbsf"],
       [mode_number |-> "L_DEPTH", short_name |-> "ld"],
       [mode_number |-> "L_DEPTH_GFX_GFX_DEPTH", short_name |-> "ldggd"],
       [mode_number |-> "TOP_AND_BOTTOM", short_name |-> "tb"],
       [mode_number |-> "SIDE_BY_SIDE_HALF", short_name |-> "sbsh"] >>

\* What -l may carry: a short name of the table or another string.
LayoutNames == {stereo_modes[k].short_name : k \in 1..Len(stereo_modes)}

RequestedLayouts == {NULL} \cup LayoutNames \cup {"xyz"}

\* The least element of a non-empty set of integers.
First(S) == CHOOSE k \in S : \A j \in S : k <= j

\* get_stereo_mode: the first entry of stereo_modes with that mode number,
\* as its position in the table; 0 is the NULL it returns when none has.
get_stereo_mode(mode_number) ==
    LET hits == {k \in 1..Len(stereo_modes) :
                    stereo_modes[k].mode_number = mode_number}
    IN  IF hits = {} THEN 0 ELSE First(hits)

ranks_swapped ==
    <<"NONE", "TOP_AND_BOTTOM", "SIDE_BY_SIDE_HALF", "SIDE_BY_SIDE_FULL",
      "FRAME_PACKING">>

\* get_mode_rank: static const int ranks[].
ranks ==
    <<"NONE", "SIDE_BY_SIDE_HALF", "TOP_AND_BOTTOM", "SIDE_BY_SIDE_FULL",
      "FRAME_PACKING">>

\* get_mode_rank.  A pointer to a mode is its position in modes, 0 is NULL.
get_mode_rank(modes, mode) ==
    IF mode = 0
    THEN -1
    ELSE LET hits == {k \in 1..Len(ranks) : ranks[k] = modes[mode].flags}
         IN  IF hits = {} THEN -1 ELSE First(hits) - 1

\* is_chosen_mode with >= in place of >.
is_chosen_mode_ge(modes, mode, requested, old) ==
    LET stereo_mode == get_stereo_mode(modes[mode].flags)
        mode_rank == get_mode_rank(modes, mode)
        ranked == IF mode_rank # -1
                     /\ mode_rank >= get_mode_rank(modes, old)
                  THEN "true" ELSE "false"
    IN  IF requested = NULL THEN {ranked}
        ELSE IF stereo_mode = 0 THEN {"crash", "false", ranked}
        ELSE IF stereo_modes[stereo_mode].short_name # requested
        THEN {"false"}
        ELSE {ranked}

\* is_chosen_mode without the test of options->stereo_layout.
is_chosen_mode_any(modes, mode, requested, old) ==
    LET mode_rank == get_mode_rank(modes, mode)
    IN  {IF mode_rank # -1 /\ mode_rank > get_mode_rank(modes, old)
         THEN "true" ELSE "false"}

\* is_chosen_mode: the set of ways the call can end.  With a requested
\* layout, stereo_mode->short_name is read without a test of stereo_mode:
\* for a mode whose packing is not in stereo_modes that is a read through
\* a null pointer, after which the call traps or strcmp compares garbage.
is_chosen_mode(modes, mode, requested, old) ==
    LET stereo_mode == get_stereo_mode(modes[mode].flags)
        mode_rank == get_mode_rank(modes, mode)
        ranked == IF mode_rank # -1
                     /\ mode_rank > get_mode_rank(modes, old)
                  THEN "true" ELSE "false"
    IN  IF requested = NULL THEN {ranked}
        ELSE IF stereo_mode = 0 THEN {"crash", "false", ranked}
        ELSE IF stereo_modes[stereo_mode].short_name # requested
        THEN {"false"}
        ELSE {ranked}

\* The lists of at most n modes.
ModeLists(n) ==
    UNION {[1..m -> {[ZeroMode EXCEPT !.flags = t] : t \in Tags}] :
             m \in 0..n}

SelInit ==
    /\ PipelineInit
    /\ LayIdle
    /\ PrepIdle
    /\ CrtcIdle
    /\ conn_modes \in ModeLists(MaxModes)
    /\ stereo_layout \in RequestedLayouts
    /\ find_i = 0
    /\ old_mode = 0
    /\ dev_mode = ZeroMode
    /\ find_pc = "loop"

\* find_mode: one iteration of the loop over conn->modes.
FindModeStep ==
    /\ find_pc = "loop"
    /\ find_i < Len(conn_modes)
    /\ \E r \in is_chosen_mode(conn_modes, find_i + 1, stereo_layout,
                               old_mode) :
         /\ find_pc' = IF r = "crash" THEN "crash" ELSE "loop"
         /\ dev_mode' = IF r = "true" THEN conn_modes[find_i + 1]
                        ELSE dev_mode
         /\ old_mode' = IF r = "true" THEN find_i + 1 ELSE old_mode
         /\ find_i' = IF r = "crash" THEN find_i ELSE find_i + 1
    /\ UNCHANGED <<conn_modes, stereo_layout, pipeVars, crtcVars, layVars,
                   prepVars>>

\* find_mode returning 0 whatever old_mode is.
FindModeReturn_Always0 ==
    /\ find_pc = "loop"
    /\ find_i >= Len(conn_modes)
    /\ find_pc' = "return_0"
    /\ UNCHANGED <<conn_modes, stereo_layout, find_i, old_mode, dev_mode,
                   pipeVars, crtcVars, layVars, prepVars>>

\* find_mode: return old_mode ? 0 : -ENOENT.
FindModeReturn ==
    /\ find_pc = "loop"
    /\ find_i >= Len(conn_modes)
    /\ find_pc' = IF old_mode # 0 THEN "return_0" ELSE "return_ENOENT"
    /\ UNCHANGED <<conn_modes, stereo_layout, find_i, old_mode, dev_mode,
                   pipeVars, crtcVars, layVars, prepVars>>

SelNext ==
    \/ FindModeStep
    \/ FindModeReturn

SelSpec == SelInit /\ [][SelNext]_vars

(***************************************************************************)
(* Layout: get_layout_for_mode.  LaySpec calls it on every mode whose      *)
(* sizes are in Dims, with *layout zeroed (as stereo_prepare_dev leaves    *)
(* it) or holding other values.  hdisplay, vdisplay and vtotal are         *)
(* uint16_t and the fields of struct mode_layout uint32_t: hdisplay * 2    *)
(* and vtotal + vdisplay stay below 2^17, so no result wraps.              *)
(***************************************************************************)

\* Largest of the small sizes a mode of the model has.
MaxDim == 4

\* The sizes of the modes: the small ones, those of a 1920x1080 mode with
\* 1125 total lines, and the largest a uint16_t holds.
Dims == (0..MaxDim) \cup {1080, 1125, 1920, 2^16 - 1}

\* case DRM_MODE_FLAG_3D_NONE
layout_none(mode) ==
    [buffer_width |-> mode.hdisplay,
     buffer_height |-> mode.vdisplay,
     eye_width |-> mode.hdisplay,
     eye_height |-> mode.vdisplay,
     virtual_eye_width |-> mode.hdisplay,
     virtual_eye_height |-> mode.vdisplay,
     right_eye_x |-> mode.hdisplay,
     left_eye_y |-> 0]

\* case DRM_MODE_FLAG_3D_SIDE_BY_SIDE_HALF with eye_width = hdisplay.
layout_sbsh_full_eye(mode) ==
    [buffer_width |-> mode.hdisplay,
     buffer_height |-> mode.vdisplay,
     eye_width |-> mode.hdisplay,
     eye_height |-> mode.vdisplay,
     virtual_eye_width |-> mode.hdisplay,
     virtual_eye_height |-> mode.vdisplay,
     right_eye_x |-> mode.hdisplay,
     left_eye_y |-> 0]

\* case DRM_MODE_FLAG_3D_SIDE_BY_SIDE_HALF
layout_sbsh(mode) ==
    [buffer_width |-> mode.hdisplay,
     buffer_height |-> mode.vdisplay,
     eye_width |-> mode.hdisplay \div 2,
     eye_height |-> mode.vdisplay,
     virtual_eye_width |-> mode.hdisplay,
     virtual_eye_height |-> mode.vdisplay,
     right_eye_x |-> mode.hdisplay \div 2,
     left_eye_y |-> 0]

\* case DRM_MODE_FLAG_3D_SIDE_BY_SIDE_FULL
layout_sbsf(mode) ==
    [buffer_width |-> mode.hdisplay * 2,
     buffer_height |-> mode.vdisplay,
     eye_width |-> mode.hdisplay,
     eye_height |-> mode.vdisplay,
     virtual_eye_width |-> mode.hdisplay,
     virtual_eye_height |-> mode.vdisplay,
     right_eye_x |-> mode.hdisplay,
     left_eye_y |-> 0]

\* case DRM_MODE_FLAG_3D_TOP_AND_BOTTOM with right_eye_x = eye_width.
layout_tb_right_eye(mode) ==
    [buffer_width |-> mode.hdisplay,
     buffer_height |-> mode.vdisplay,
     eye_width |-> mode.hdisplay,
     eye_height |-> mode.vdisplay \div 2,
     virtual_eye_width |-> mode.hdisplay,
     virtual_eye_height |-> mode.vdisplay,
     right_eye_x |-> mode.hdisplay,
     left_eye_y |-> mode.vdisplay \div 2]

\* case DRM_MODE_FLAG_3D_TOP_AND_BOTTOM
layout_tb(mode) ==
    [buffer_width |-> mode.hdisplay,
     buffer_height |-> mode.vdisplay,
     eye_width |-> mode.hdisplay,
     eye_height |-> mode.vdisplay \div 2,
     virtual_eye_width |-> mode.hdisplay,
     virtual_eye_height |-> mode.vdisplay,
     right_eye_x |-> 0,
     left_eye_y |-> mode.vdisplay \div 2]

\* case DRM_MODE_FLAG_3D_FRAME_PACKING with left_eye_y = vdisplay.
layout_fp_vdisplay(mode) ==
    [buffer_width |-> mode.hdisplay,
     buffer_height |-> mode.vtotal + mode.vdisplay,
     eye_width |-> mode.hdisplay,
     eye_height |-> mode.vdisplay,
     virtual_eye_width |-> mode.hdisplay,
     virtual_eye_height |-> mode.vdisplay,
     right_eye_x |-> 0,
     left_eye_y |-> mode.vdisplay]

\* Frame packing with the left eye at the bottom of the buffer.
layout_fp_no_offset(mode) ==
    [buffer_width |-> mode.hdisplay,
     buffer_height |-> mode.vtotal + mode.vdisplay,
     eye_width |-> mode.hdisplay,
     eye_height |-> mode.vdisplay,
     virtual_eye_width |-> mode.hdisplay,
     virtual_eye_height |-> mode.vdisplay,
     right_eye_x |-> 0,
     left_eye_y |-> 0]

\* case DRM_MODE_FLAG_3D_FRAME_PACKING
layout_fp(mode) ==
    [buffer_width |-> mode.hdisplay,
     buffer_height |-> mode.vtotal + mode.vdisplay,
     eye_width |-> mode.hdisplay,
     eye_height |-> mode.vdisplay,
     virtual_eye_width |-> mode.hdisplay,
     virtual_eye_height |-> mode.vdisplay,
     right_eye_x |-> 0,
     left_eye_y |-> mode.vtotal]

\* The case labels of the switch plus FIELD_ALTERNATIVE.
LayoutCases_with_fa ==
    {"NONE", "SIDE_BY_SIDE_HALF", "SIDE_BY_SIDE_FULL", "TOP_AND_BOTTOM",
     "FRAME_PACKING", "FIELD_ALTERNATIVE"}

\* The case labels of the switch in get_layout_for_mode.
LayoutCases ==
    {"NONE", "SIDE_BY_SIDE_HALF", "SIDE_BY_SIDE_FULL", "TOP_AND_BOTTOM",
     "FRAME_PACKING"}

\* get_layout_for_mode: what *layout holds afterwards; the default branch
\* writes nothing.
get_layout_for_mode(l, mode) ==
    IF mode.flags \notin LayoutCases THEN l
    ELSE CASE mode.flags = "NONE" -> layout_none(mode)
           [] mode.flags = "SIDE_BY_SIDE_HALF" -> layout_sbsh(mode)
           [] mode.flags = "SIDE_BY_SIDE_FULL" -> layout_sbsf(mode)
           [] mode.flags = "TOP_AND_BOTTOM" -> layout_tb(mode)
           [] OTHER -> layout_fp(mode)

\* A struct mode_layout that is not zeroed.
StaleLayout ==
    [buffer_width |-> 7, buffer_height |-> 7, eye_width |-> 7,
     eye_height |-> 7, virtual_eye_width |-> 7, virtual_eye_height |-> 7,
     right_eye_x |-> 7, left_eye_y |-> 7]

LayInit ==
    /\ PipelineInit
    /\ SelIdle
    /\ PrepIdle
    /\ CrtcIdle
    /\ lay_mode \in [flags : Tags, hdisplay : Dims, vdisplay : Dims,
                     vtotal : Dims]
    /\ layout \in {ZeroLayout, StaleLayout}
    /\ lay_pc = "call"

\* get_layout_for_mode.  In the default branch assert(0) ends the process,
\* or, in a build with NDEBUG, is no statement and the function returns
\* with *layout as it was.
GetLayoutForMode ==
    /\ lay_pc = "call"
    /\ layout' = get_layout_for_mode(layout, lay_mode)
    /\ lay_pc' \in IF lay_mode.flags \in LayoutCases THEN {"return"}
                   ELSE {"abort", "return_unset"}
    /\ UNCHANGED <<lay_mode, pipeVars, crtcVars, selVars, prepVars>>

\* set_eye: the rectangle handed to glViewport for eye 0 (left) and for
\* eye 1 (right).
set_eye(l, eye) ==
    IF eye = 0
    THEN [x |-> 0, y |-> l.left_eye_y, width |-> l.eye_width,
          height |-> l.eye_height]
    ELSE [x |-> l.right_eye_x, y |-> 0, width |-> l.eye_width,
          height |-> l.eye_height]

LayNext == GetLayoutForMode

LaySpec == LayInit /\ [][LayNext]_vars

(***************************************************************************)
(* stereo_setup_dev from find_mode on, run on its own: find_mode, then     *)
(* get_layout_for_mode of the mode it copied to dev->mode, then the name   *)
(* of the packing for the message.                                         *)
(***************************************************************************)

\* stereo_setup_dev after find_mode returned 0: get_layout_for_mode of
\* dev->mode, then get_stereo_mode(mode_3d)->long_name with no test of
\* what get_stereo_mode returned.
SetupDevLayout ==
    /\ find_pc = "return_0"
    /\ lay_pc = "idle"
    /\ lay_mode' = dev_mode
    /\ layout' = get_layout_for_mode(layout, dev_mode)
    /\ lay_pc' \in IF dev_mode.flags \notin LayoutCases
                   THEN {"abort"}
                        \cup (IF get_stereo_mode(dev_mode.flags) = 0
                              THEN {"crash"} ELSE {"return_unset"})
                   ELSE IF get_stereo_mode(dev_mode.flags) = 0
                   THEN {"crash"}
                   ELSE {"return"}
    /\ UNCHANGED <<pipeVars, crtcVars, selVars, prepVars>>

SetupNext ==
    \/ FindModeStep
    \/ FindModeReturn
    \/ SetupDevLayout

SetupSpec == SelInit /\ [][SetupNext]_vars

(***************************************************************************)
(* Discovery: stereo_prepare_dev, get_connector, stereo_setup_dev.         *)
(* PrepSpec runs stereo_prepare_dev on every list of up to MaxConnectors   *)
(* connectors, each connected or not, and every options->connector.  The   *)
(* connector ids of a device are distinct: the connector at position k     *)
(* has id k.  Whether find_mode and stereo_find_crtc succeed is left open  *)
(* here.                                                                   *)
(***************************************************************************)

\* Most connectors a device of the model has.
MaxConnectors == 3

\* The lists of at most n connectors.
ConnectorLists(n) ==
    UNION {[1..m -> {"CONNECTED", "DISCONNECTED"}] : m \in 0..n}

\* conn->connector_id of the connector at position k.
connector_id(k) == k

PrepInit ==
    /\ PipelineInit
    /\ SelIdle
    /\ LayIdle
    /\ CrtcIdle
    /\ connectors \in ConnectorLists(MaxConnectors)
    /\ opt_connector \in 0..(MaxConnectors + 1)
    /\ get_i = 0
    /\ conn = 0
    /\ prep_pc = "get_resources"

\* stereo_prepare_dev: drmModeGetResources; NULL goes to error.
PrepGetResources ==
    /\ prep_pc = "get_resources"
    /\ \E got \in BOOLEAN :
         prep_pc' = IF got THEN "get_connector" ELSE "fail_resources"
    /\ UNCHANGED <<connectors, opt_connector, get_i, conn, pipeVars, crtcVars,
                   selVars, layVars>>

\* get_connector: one iteration of the loop.  A connector that cannot be
\* retrieved ends the search with NULL; the first one retrieved whose id
\* is the requested one (any, when options->connector is 0) is returned;
\* another is freed and the loop goes on.
GetConnectorStep ==
    /\ prep_pc = "get_connector"
    /\ get_i < Len(connectors)
    /\ \E got \in BOOLEAN :
         IF ~got
         THEN /\ prep_pc' = "fail_get_connector"
              /\ UNCHANGED <<get_i, conn>>
         ELSE IF opt_connector = 0
                 \/ connector_id(get_i + 1) = opt_connector
         THEN /\ conn' = get_i + 1
              /\ prep_pc' = "setup_dev"
              /\ get_i' = get_i
         ELSE /\ get_i' = get_i + 1
              /\ UNCHANGED <<conn, prep_pc>>
    /\ UNCHANGED <<connectors, opt_connector, pipeVars, crtcVars, selVars,
                   layVars>>

\* get_connector: the loop ends without a match and NULL is returned;
\* stereo_prepare_dev goes to error_resources.
GetConnectorNone ==
    /\ prep_pc = "get_connector"
    /\ get_i >= Len(connectors)
    /\ prep_pc' = "fail_no_connector"
    /\ UNCHANGED <<connectors, opt_connector, get_i, conn, pipeVars, crtcVars,
                   selVars, layVars>>

\* stereo_setup_dev: a connector that is not connected is refused with
\* -ENOENT, and stereo_prepare_dev frees the device structure and the
\* connector and returns NULL.
SetupDevConnection ==
    /\ prep_pc = "setup_dev"
    /\ prep_pc' = IF connectors[conn] = "CONNECTED" THEN "find_mode"
                  ELSE "fail_unused"
    /\ UNCHANGED <<connectors, opt_connector, get_i, conn, pipeVars, crtcVars,
                   selVars, layVars>>

\* stereo_setup_dev: find_mode (and get_layout_for_mode on success).
SetupDevFindMode ==
    /\ prep_pc = "find_mode"
    /\ \E found \in BOOLEAN :
         prep_pc' = IF found THEN "find_crtc" ELSE "fail_no_mode"
    /\ UNCHANGED <<connectors, opt_connector, get_i, conn, pipeVars, crtcVars,
                   selVars, layVars>>

\* stereo_setup_dev: stereo_find_crtc; on success stereo_prepare_dev
\* returns the device structure.
SetupDevFindCrtc ==
    /\ prep_pc = "find_crtc"
    /\ \E found \in BOOLEAN :
         prep_pc' = IF found THEN "return_dev" ELSE "fail_no_crtc"
    /\ UNCHANGED <<connectors, opt_connector, get_i, conn, pipeVars, crtcVars,
                   selVars, layVars>>

PrepNext ==
    \/ PrepGetResources
    \/ GetConnectorStep
    \/ GetConnectorNone
    \/ SetupDevConnection
    \/ SetupDevFindMode
    \/ SetupDevFindCrtc

PrepSpec == PrepInit /\ [][PrepNext]_vars

(***************************************************************************)
(* stereo_find_crtc, run on its own.  An encoder of the connector is       *)
(* present (drmModeGetEncoder returns it) or not (it returns NULL), and    *)
(* has the set of the bit numbers set in possible_crtcs; the encoder       *)
(* conn->encoder_id names (0: none) has its crtc_id.  res->crtcs[j] is 0   *)
(* or the identifier of the controller at index j, which is j + 1.         *)
(***************************************************************************)

MaxEncoders == 2
MaxCrtcs == 2

\* The encoders a connector can list.
Encoders ==
    {[present |-> FALSE, possible_crtcs |-> {}]}
    \cup {[present |-> TRUE, possible_crtcs |-> m] :
            m \in SUBSET (0..(MaxCrtcs - 1))}

\* The lists of at most n encoders.
EncoderLists(n) == UNION {[1..m -> Encoders] : m \in 0..n}

\* The controller lists of at most n entries.
CrtcLists(n) ==
    UNION {{[j \in 1..m |-> IF j \in S THEN j ELSE 0] : S \in SUBSET (1..m)} :
             m \in 0..n}

\* What conn->encoder_id can name.
AttachedEncoders ==
    {[encoder_id |-> 0, present |-> FALSE, crtc_id |-> 0],
     [encoder_id |-> 1, present |-> FALSE, crtc_id |-> 0]}
    \cup {[encoder_id |-> 1, present |-> TRUE, crtc_id |-> c] :
            c \in 0..MaxCrtcs}

\* What a read of a word of a freed encoder object can yield: the value
\* it held, zero, or a value that names no controller.
FreedRead(v) == {v, 0, MaxCrtcs + 1}

\* The inner loop of stereo_find_crtc for an encoder with the possible_crtcs
\* bits m: the first j, 0-based, with bit j set and res->crtcs[j] > 0, or
\* -1 when the loop ends without one.
first_crtc_index(m, crtcs) ==
    LET ok == {j \in 0..(Len(crtcs) - 1) : j \in m /\ crtcs[j + 1] > 0}
    IN  IF ok = {} THEN -1 ELSE CHOOSE j \in ok : \A k \in ok : j <= k

CrtcInit ==
    /\ PipelineInit
    /\ SelIdle
    /\ LayIdle
    /\ PrepIdle
    /\ conn_encoder \in AttachedEncoders
    /\ conn_encoders \in EncoderLists(MaxEncoders)
    /\ res_crtcs \in CrtcLists(MaxCrtcs)
    /\ crtc_i = 0
    /\ dev_crtc = 0
    /\ enc_live = 0
    /\ freed_reads = 0
    /\ crtc_pc = "attached"

\* "first try the currently conected encoder+crtc": with a nonzero
\* conn->encoder_id, enc = drmModeGetEncoder and enc->crtc_id is read with
\* no test of enc; with a crtc_id > 0 the encoder is freed and dev->crtc is
\* then read from the freed object; with crtc_id 0 the encoder is left
\* allocated and the loop over conn->encoders follows.
FindCrtcAttached ==
    /\ crtc_pc = "attached"
    /\ IF conn_encoder.encoder_id = 0
       THEN /\ crtc_pc' = "scan"
            /\ UNCHANGED <<dev_crtc, enc_live, freed_reads>>
       ELSE IF ~conn_encoder.present
       THEN /\ crtc_pc' = "crash"
            /\ UNCHANGED <<dev_crtc, enc_live, freed_reads>>
       ELSE IF conn_encoder.crtc_id > 0
       THEN /\ dev_crtc' \in FreedRead(conn_encoder.crtc_id)
            /\ crtc_pc' = "return_0"
            /\ enc_live' = enc_live
            /\ freed_reads' = freed_reads + 1
       ELSE /\ crtc_pc' = "scan"
            /\ enc_live' = enc_live + 1
            /\ dev_crtc' = dev_crtc
            /\ freed_reads' = freed_reads
    /\ UNCHANGED <<conn_encoder, conn_encoders, res_crtcs, crtc_i, pipeVars,
                   selVars, layVars, prepVars>>

\* One turn of the loop over conn->encoders: an encoder that is not
\* retrieved is skipped; else the inner loop over res->crtcs runs and the
\* encoder is freed, before the return when a controller was found.
FindCrtcEncoder ==
    /\ crtc_pc = "scan"
    /\ crtc_i < Len(conn_encoders)
    /\ LET enc == conn_encoders[crtc_i + 1]
           j == first_crtc_index(enc.possible_crtcs, res_crtcs)
       IN  IF enc.present /\ j >= 0
           THEN /\ dev_crtc' = res_crtcs[j + 1]
                /\ crtc_pc' = "return_0"
                /\ crtc_i' = crtc_i
           ELSE /\ crtc_i' = crtc_i + 1
                /\ UNCHANGED <<dev_crtc, crtc_pc>>
    /\ UNCHANGED <<conn_encoder, conn_encoders, res_crtcs, enc_live,
                   freed_reads, pipeVars, selVars, layVars, prepVars>>

\* The loop over conn->encoders ends: return -ENOENT.
FindCrtcNone ==
    /\ crtc_pc = "scan"
    /\ crtc_i = Len(conn_encoders)
    /\ crtc_pc' = "return_ENOENT"
    /\ UNCHANGED <<conn_encoder, conn_encoders, res_crtcs, crtc_i, dev_crtc,
                   enc_live, freed_reads, pipeVars, selVars, layVars,
                   prepVars>>

CrtcNext ==
    \/ FindCrtcAttached
    \/ FindCrtcEncoder
    \/ FindCrtcNone

CrtcSpec == CrtcInit /\ [][CrtcNext]_vars

(***************************************************************************)
(* Properties                                                              *)
(***************************************************************************)

\* A page flip has been accepted and the wait has not yet read its
\* completion event.
FlipInFlight == flip_target # 0 \/ flip_event > 0

\* C1: a framebuffer is unregistered and a buffer is given back to the
\* surface only in a step taken while no accepted page flip is waiting for
\* its completion event to be read: the pair that was current before a
\* present is never released between the flip request and the observation
\* of its completion.
C1_ReleaseAfterFlipCompletion ==
    [][(registered' # registered \/ locked' # locked)
         /\ registered' \subseteq registered /\ locked' \subseteq locked
       => ~FlipInFlight /\ pending_swap = 0]_vars

\* C1 witness: the second present has completed and released the pair of
\* the first one, the pipeline still running.
C1_Witness ==
    /\ pc = "loop_top"
    /\ stat.presents_done >= 2
    /\ ~stat.torn
    /\ registered = {current_fb_id}
    /\ locked = {current_bo}

\* C2: the chosen mode is applied exactly once per binding, by the first
\* successful present; a present after the first successful one performs
\* no modeset.
C2_ModesetExactlyOnce ==
    /\ stat.modeset_ok <= 1
    /\ stat.presents_done >= 1 =>
         stat.modeset_ok = 1 /\ pc # "set_initial_crtc"

C4_AllReleasedAtExit ==
    pc = "exit" =>
        /\ \A r \in Res : rel[r] = acq[r]
        /\ locked = {}
        /\ registered = {}
        /\ ~winsys_live

\* C5: a pair that a completed present made the current one is released
\* to the surface, and its framebuffer unregistered, only by a step after
\* which the controller scans something else; teardown included.
C5_NoReleaseWhileScanned ==
    [][stat.presents_done >= 1 =>
         \A b \in (locked \ locked') \cup (registered \ registered') :
            scanout' # b]_vars

\* C6: whenever the loop reads the flag, every present begun has run
\* through its last step, no flip is pending, no buffer is locked other
\* than the current one and the controller scans a registered framebuffer.
C6_QuiescentWhenFlagRead ==
    pc = "loop_top" =>
        /\ stat.presents_done = next_id
        /\ pending_swap = 0
        /\ ~FlipInFlight
        /\ locked \subseteq {current_bo}
        /\ scanout = Prior \/ scanout \in registered

\* Teardown has completed: swap chain and binding released, device closed.
TornDown ==
    /\ stat.torn
    /\ winsys_context = NULL /\ winsys_dev = NULL /\ winsys_fd = -1
    /\ saved_crtc = NULL
    /\ \A r \in {"fd", "dev", "saved_crtc"} \cup ContextResources :
         rel[r] = acq[r]

\* C7: a run that entered the render loop ends with status 0 and a
\* completed teardown in which the prior configuration of the controller
\* was written back if the pipeline had applied its mode, and at most one
\* present was begun after the flag was set.
C7_CleanExit ==
    pc = "exit" /\ stat.loop_entered =>
        /\ ret = EXIT_SUCCESS
        /\ TornDown
        /\ stat.after_quit <= 1
        /\ stat.modeset_ok > 0 => stat.restores = 1

\* The part of C7 that holds, under FairSpec: once the flag is set in the
\* render loop the process ends with status 0, the teardown completed and
\* at most one further present begun.
C7_Terminates ==
    (stat.loop_entered /\ quit # 0) ~>
        (pc = "exit" /\ ret = EXIT_SUCCESS /\ TornDown
         /\ stat.after_quit <= 1)

\* C8: after a failed setup step the render loop is never entered, no
\* buffer is locked, no modeset and no page flip is issued, and the exit
\* status is not zero.
C8_SetupFailureAborts ==
    stat.setup_failed =>
        /\ ~stat.loop_entered
        /\ next_id = 0
        /\ stat.modeset_calls = 0
        /\ stat.flip_calls = 0
        /\ pc \notin {"connected", "loop_top", "draw", "swap", "addfb",
                      "set_initial_crtc", "page_flip", "wait_swap",
                      "swap_finish"}
        /\ pc = "exit" => ret # EXIT_SUCCESS

\* C8 witness: the last step of the swap-chain creation failed and the
\* process has returned.
C8_Witness ==
    /\ pc = "exit"
    /\ stat.setup_failed
    /\ acq["egl_context"] = 1
    /\ ret = EXIT_FAILURE

\* C9: once drmHandleEvent has failed during the wait, the device's event
\* stream is not read again.
C9_WaitFailureIsFatal ==
    [][stat.ev_ret = -1 => ~(WaitSwapEvent \/ WaitSwapError)]_vars

\* What a call of swap does on entry: it reads winsys->context->edpy and
\* calls eglSwapBuffers without testing winsys->context, so with a cleared
\* context the read is through a null pointer.
swap_entry(context) ==
    IF context = NULL THEN {"crash", "hardware_call"} ELSE {"hardware_call"}

PackingRank(tag) ==
    CASE tag = "NONE" -> 0
      [] tag = "SIDE_BY_SIDE_HALF" -> 1
      [] tag = "TOP_AND_BOTTOM" -> 2
      [] tag = "SIDE_BY_SIDE_FULL" -> 3
      [] tag = "FRAME_PACKING" -> 4
      [] OTHER -> -1

\* The short name of a packing; a tag outside the enumeration has none.
PackingName(tag) ==
    CASE tag = "NONE" -> "none"
      [] tag = "FRAME_PACKING" -> "fp"
      [] tag = "FIELD_ALTERNATIVE" -> "fa"
      [] tag = "LINE_ALTERNATIVE" -> "la"
      [] tag = "SIDE_BY_SIDE_FULL" -> "sbsf"
      [] tag = "L_DEPTH" -> "ld"
      [] tag = "L_DEPTH_GFX_GFX_DEPTH" -> "ldggd"
      [] tag = "TOP_AND_BOTTOM" -> "tb"
      [] tag = "SIDE_BY_SIDE_HALF" -> "sbsh"
      [] OTHER -> ""

\* Mode k of the list passes the filter of the requested layout.
Candidate(k) ==
    stereo_layout = NULL \/ PackingName(conn_modes[k].flags) = stereo_layout

\* A layout is requested and no advertised mode has a packing of that name.
NoModeMatches ==
    /\ stereo_layout # NULL
    /\ \A k \in 1..Len(conn_modes) :
         PackingName(conn_modes[k].flags) # stereo_layout

\* Every mode of the list has a packing of the enumeration.
AllEnumerated == \A k \in 1..Len(conn_modes) : conn_modes[k].flags \in Packings

\* C11: with no requested layout, a successful selection yields a mode of
\* the list whose rank is the maximum over all advertised modes, wherever
\* in the list the modes stand.
C11_SelectsMaximumRank ==
    find_pc = "return_0" /\ stereo_layout = NULL =>
        /\ old_mode \in 1..Len(conn_modes)
        /\ dev_mode = conn_modes[old_mode]
        /\ \A k \in 1..Len(conn_modes) :
             PackingRank(conn_modes[k].flags) <= PackingRank(dev_mode.flags)

\* C11 witness: [None, SideBySideHalf, TopAndBottom] with no requested
\* layout has selected TopAndBottom.
C11_Witness ==
    /\ find_pc = "return_0"
    /\ stereo_layout = NULL
    /\ Len(conn_modes) = 3
    /\ conn_modes[1].flags = "NONE"
    /\ conn_modes[2].flags = "SIDE_BY_SIDE_HALF"
    /\ conn_modes[3].flags = "TOP_AND_BOTTOM"
    /\ dev_mode.flags = "TOP_AND_BOTTOM"
    /\ old_mode = 3

\* C12: among the candidates of the winning rank the selected mode is the
\* one advertised first, and the running best is replaced only by a mode
\* of strictly higher rank, never by a later mode of equal rank.
C12_FirstOfEqualRankWins ==
    /\ [](find_pc = "return_0" =>
            \A k \in 1..Len(conn_modes) :
               (/\ Candidate(k)
                /\ PackingRank(conn_modes[k].flags)
                     = PackingRank(conn_modes[old_mode].flags))
               => old_mode <= k)
    /\ [][old_mode # 0 /\ old_mode' # old_mode =>
            PackingRank(conn_modes[old_mode'].flags)
              > PackingRank(conn_modes[old_mode].flags)]_vars

\* C12 witness: the first and the last mode of the list are both
\* FramePacking and the first one was returned.
C12_Witness ==
    /\ find_pc = "return_0"
    /\ Len(conn_modes) = 3
    /\ conn_modes[1].flags = "FRAME_PACKING"
    /\ conn_modes[3].flags = "FRAME_PACKING"
    /\ old_mode = 1

\* C13: with a requested layout that no advertised mode has, nothing is
\* ever selected and find_mode returns -ENOENT (for modes whose packings
\* are of the enumeration the call always gets as far as returning); a
\* successful selection under a requested layout has that layout's name.
C13_RequestedLayoutFilters ==
    /\ NoModeMatches => old_mode = 0 /\ find_pc # "return_0"
    /\ NoModeMatches /\ AllEnumerated =>
         find_pc \in {"loop", "return_ENOENT"}
    /\ find_pc = "return_0" /\ stereo_layout # NULL =>
         PackingName(dev_mode.flags) = stereo_layout

\* C13 witness: fp was requested, the list holds SideBySideFull and
\* TopAndBottom, and find_mode returned -ENOENT.
C13_Witness ==
    /\ find_pc = "return_ENOENT"
    /\ stereo_layout = "fp"
    /\ Len(conn_modes) = 2
    /\ conn_modes[1].flags = "SIDE_BY_SIDE_FULL"
    /\ conn_modes[2].flags = "TOP_AND_BOTTOM"

\* C14: find_mode returns -ENOENT exactly when no candidate mode has a
\* rank >= 0, and a mode of an unranked packing is never selected,
\* whatever is requested.
C14_NotFoundIffNoRankedCandidate ==
    /\ find_pc \in {"return_0", "return_ENOENT"} =>
         (find_pc = "return_ENOENT"
            <=> ~\E k \in 1..Len(conn_modes) :
                   Candidate(k) /\ PackingRank(conn_modes[k].flags) >= 0)
    /\ old_mode # 0 => PackingRank(conn_modes[old_mode].flags) >= 0
    /\ find_pc = "return_0" => PackingRank(dev_mode.flags) >= 0

\* C14 witness: fa was requested, the list holds a FieldAlternative mode
\* and a ranked one, and find_mode returned -ENOENT.
C14_Witness ==
    /\ find_pc = "return_ENOENT"
    /\ stereo_layout = "fa"
    /\ Len(conn_modes) = 2
    /\ conn_modes[1].flags = "FIELD_ALTERNATIVE"
    /\ conn_modes[2].flags = "NONE"

\* C14 witness for the empty list.
C14_EmptyListNotFound ==
    find_pc = "return_ENOENT" /\ conn_modes = <<>>

(***************************************************************************)
(* Properties of the layout computation (under LaySpec)                    *)
(***************************************************************************)

\* The geometry table: buffer, eye and virtual eye size, right_eye_x and
\* left_eye_y of a W x H mode with T total lines, per packing.
LayoutTable(tag, W, H, T) ==
    CASE tag = "NONE" ->
           [buffer_width |-> W, buffer_height |-> H,
            eye_width |-> W, eye_height |-> H,
            virtual_eye_width |-> W, virtual_eye_height |-> H,
            right_eye_x |-> W, left_eye_y |-> 0]
      [] tag = "SIDE_BY_SIDE_HALF" ->
           [buffer_width |-> W, buffer_height |-> H,
            eye_width |-> W \div 2, eye_height |-> H,
            virtual_eye_width |-> W, virtual_eye_height |-> H,
            right_eye_x |-> W \div 2, left_eye_y |-> 0]
      [] tag = "SIDE_BY_SIDE_FULL" ->
           [buffer_width |-> 2 * W, buffer_height |-> H,
            eye_width |-> W, eye_height |-> H,
            virtual_eye_width |-> W, virtual_eye_height |-> H,
            right_eye_x |-> W, left_eye_y |-> 0]
      [] tag = "TOP_AND_BOTTOM" ->
           [buffer_width |-> W, buffer_height |-> H,
            eye_width |-> W, eye_height |-> H \div 2,
            virtual_eye_width |-> W, virtual_eye_height |-> H,
            right_eye_x |-> 0, left_eye_y |-> H \div 2]
      [] tag = "FRAME_PACKING" ->
           [buffer_width |-> W, buffer_height |-> T + H,
            eye_width |-> W, eye_height |-> H,
            virtual_eye_width |-> W, virtual_eye_height |-> H,
            right_eye_x |-> 0, left_eye_y |-> T]

\* The call has ended through one of the five cases of the switch.
LayoutReturned == lay_pc = "return"

\* C15: for a mode of packing None, SideBySideHalf, SideBySideFull,
\* TopAndBottom or FramePacking the call returns, and the geometry it
\* leaves is that of the table, whatever *layout held before.
C15_GeometryOfTheTable ==
    lay_mode.flags \in {"NONE", "SIDE_BY_SIDE_HALF", "SIDE_BY_SIDE_FULL",
                        "TOP_AND_BOTTOM", "FRAME_PACKING"}
    /\ lay_pc # "call" =>
        /\ LayoutReturned
        /\ layout = LayoutTable(lay_mode.flags, lay_mode.hdisplay,
                                lay_mode.vdisplay, lay_mode.vtotal)

\* C15 witness: FramePacking 1920x1080 with 1125 total lines gave a
\* 1920x2205 buffer, 1920x1080 eyes, left_eye_y 1125 and right_eye_x 0.
C15_Witness ==
    /\ LayoutReturned
    /\ lay_mode = [flags |-> "FRAME_PACKING", hdisplay |-> 1920,
                   vdisplay |-> 1080, vtotal |-> 1125]
    /\ layout.buffer_width = 1920 /\ layout.buffer_height = 2205
    /\ layout.eye_width = 1920 /\ layout.eye_height = 1080
    /\ layout.left_eye_y = 1125 /\ layout.right_eye_x = 0

\* C16 as stated: eye_width * 2 = buffer_width for the side-by-side
\* packings, eye_height * 2 = buffer_height for TopAndBottom and
\* buffer_height = total height + active height for FramePacking, odd
\* sizes included.
C16_EyeTimesTwoIsBuffer ==
    LayoutReturned =>
        /\ lay_mode.flags \in {"SIDE_BY_SIDE_HALF", "SIDE_BY_SIDE_FULL"} =>
             layout.eye_width * 2 = layout.buffer_width
        /\ lay_mode.flags = "TOP_AND_BOTTOM" =>
             layout.eye_height * 2 = layout.buffer_height
        /\ lay_mode.flags = "FRAME_PACKING" =>
             layout.buffer_height = lay_mode.vtotal + lay_mode.vdisplay

\* C16 amended: the identities hold for SideBySideFull and FramePacking;
\* for SideBySideHalf and TopAndBottom the halved size is rounded down, so
\* twice the eye size is the buffer size when the active size is even and
\* one less when it is odd.
C16_EyeTimesTwoRoundsDown ==
    LayoutReturned =>
        /\ lay_mode.flags = "SIDE_BY_SIDE_FULL" =>
             layout.eye_width * 2 = layout.buffer_width
        /\ lay_mode.flags = "SIDE_BY_SIDE_HALF" =>
             layout.buffer_width - layout.eye_width * 2
               = lay_mode.hdisplay % 2
        /\ lay_mode.flags = "TOP_AND_BOTTOM" =>
             layout.buffer_height - layout.eye_height * 2
               = lay_mode.vdisplay % 2
        /\ lay_mode.flags = "FRAME_PACKING" =>
             layout.buffer_height = lay_mode.vtotal + lay_mode.vdisplay

\* C16 witness: a SideBySideHalf mode 3 wide gave eyes 1 wide in a buffer
\* 3 wide.
C16_Witness ==
    /\ LayoutReturned
    /\ lay_mode.flags = "SIDE_BY_SIDE_HALF"
    /\ lay_mode.hdisplay = 3
    /\ layout.eye_width = 1
    /\ layout.buffer_width = 3

\* The mode has positive sizes.
PositiveSizes ==
    lay_mode.hdisplay > 0 /\ lay_mode.vdisplay > 0 /\ lay_mode.vtotal > 0

\* C17 as stated: for positive sizes exactly one of right_eye_x and
\* left_eye_y is nonzero for SideBySideHalf, SideBySideFull and
\* TopAndBottom, and both are zero for FramePacking and None.
C17_OffsetsAsStated ==
    LayoutReturned /\ PositiveSizes =>
        /\ lay_mode.flags \in {"SIDE_BY_SIDE_HALF", "SIDE_BY_SIDE_FULL",
                               "TOP_AND_BOTTOM"} =>
             (layout.right_eye_x # 0) # (layout.left_eye_y # 0)
        /\ lay_mode.flags \in {"FRAME_PACKING", "NONE"} =>
             layout.right_eye_x = 0 /\ layout.left_eye_y = 0

\* C17 amended: for positive sizes the two offsets are never both
\* nonzero; right_eye_x is the active width for None and SideBySideFull
\* and half of it for SideBySideHalf (zero only for a width of 1), with
\* left_eye_y zero; left_eye_y is the total height for FramePacking and
\* half the active height for TopAndBottom (zero only for a height of 1),
\* with right_eye_x zero.
C17_AtMostOneOffset ==
    LayoutReturned /\ PositiveSizes =>
        /\ ~(layout.right_eye_x # 0 /\ layout.left_eye_y # 0)
        /\ lay_mode.flags \in {"NONE", "SIDE_BY_SIDE_FULL"} =>
             layout.right_eye_x = lay_mode.hdisplay /\ layout.left_eye_y = 0
        /\ lay_mode.flags = "SIDE_BY_SIDE_HALF" =>
             /\ layout.right_eye_x # 0 <=> lay_mode.hdisplay >= 2
             /\ layout.left_eye_y = 0
        /\ lay_mode.flags = "TOP_AND_BOTTOM" =>
             /\ layout.left_eye_y # 0 <=> lay_mode.vdisplay >= 2
             /\ layout.right_eye_x = 0
        /\ lay_mode.flags = "FRAME_PACKING" =>
             layout.left_eye_y = lay_mode.vtotal /\ layout.right_eye_x = 0

\* C17 witness: a None mode 1920x1080 has right_eye_x 1920 and
\* left_eye_y 0.
C17_Witness ==
    /\ LayoutReturned
    /\ lay_mode.flags = "NONE"
    /\ lay_mode.hdisplay = 1920 /\ lay_mode.vdisplay = 1080
    /\ lay_mode.vtotal = 1125
    /\ layout.right_eye_x = 1920
    /\ layout.left_eye_y = 0

\* C18 as stated: for each of the nine packings of the enumeration the
\* call returns a geometry, and the fatal branch is taken only for a tag
\* outside the enumeration.
C18_TotalOverEnumeration ==
    /\ lay_mode.flags \in Packings /\ lay_pc # "call" => LayoutReturned
    /\ lay_pc \in {"abort", "return_unset"} => lay_mode.flags \notin Packings

\* C18 amended: the call returns a geometry exactly for the five ranked
\* packings; for FieldAlternative, LineAlternative, LDepth,
\* LDepthGfxGfxDepth and a tag outside the enumeration it takes the
\* default branch, where the assertion ends the process or (compiled out)
\* the layout is left as it was.
C18_DefinedForRankedPackings ==
    /\ [](lay_pc # "call" =>
            (LayoutReturned <=> PackingRank(lay_mode.flags) >= 0))
    /\ [](lay_pc # "call" /\ PackingRank(lay_mode.flags) < 0 =>
            lay_pc \in {"abort", "return_unset"})
    /\ [][lay_pc' \in {"abort", "return_unset"} => layout' = layout]_vars

\* C18 witness: the call on a LineAlternative mode ended in the failed
\* assertion.
C18_Witness ==
    /\ lay_pc = "abort"
    /\ lay_mode.flags = "LINE_ALTERNATIVE"
    /\ lay_mode.hdisplay = 1920

(***************************************************************************)
(* Properties of the discovery (under PrepSpec)                            *)
(***************************************************************************)

\* The connectors that are connected and have the requested id (any id
\* when none is requested).
ConnectedMatches ==
    {k \in 1..Len(connectors) :
        /\ connectors[k] = "CONNECTED"
        /\ opt_connector = 0 \/ connector_id(k) = opt_connector}

\* C19: discovery binds the first connector, in enumeration order, that is
\* connected and has the requested id, and it fails for want of a
\* connector only when there is no such connector (or the enumeration
\* itself fails).
C19_BindsFirstConnectedMatch ==
    /\ prep_pc \in {"find_mode", "find_crtc", "return_dev", "fail_no_mode",
                    "fail_no_crtc"} =>
         /\ ConnectedMatches # {}
         /\ conn = First(ConnectedMatches)
    /\ prep_pc \in {"fail_no_connector", "fail_unused"} =>
         ConnectedMatches = {}

(***************************************************************************)
(* Properties of the option processing (under Spec)                        *)
(***************************************************************************)

\* C20: when the arguments hold an unknown flag, a flag without its
\* required argument or a stray non-option argument, setup never starts
\* (no winsys is created, the device is never opened, no buffer is locked
\* and no mode applied) and the process ends with a nonzero status.
C20_MalformedArgumentsAbort ==
    stat.bad_args =>
        /\ ~winsys_live
        /\ acq["fd"] = 0
        /\ next_id = 0
        /\ stat.modeset_calls = 0
        /\ pc \in {"out", "exit"} => ret # EXIT_SUCCESS

\* C21: option processing accepts -d <path>: for every argument vector
\* that is -d <path>, alone or combined with valid -c and -l flags,
\* process_options succeeds and the run goes on to create the pipeline.
C21_DeviceFlagAccepted ==
    [][pc = "options" /\ stat'.d_given
          => pc' = "create_winsys" /\ ret' = EXIT_SUCCESS]_vars

Reverse(q) == [i \in 1..Len(q) |-> q[Len(q) + 1 - i]]

\* What the calls before the k-th of stereo_prepare_context acquired, in
\* order, the context structure first.
AcquiredInOrder(k) ==
    <<"context">>
    \o SelectSeq([j \in 1..(k - 1) |-> StepResource(j)],
                 LAMBDA r : r # NULL)

\* C23: swap-chain creation makes its calls in the fixed order
\* buffer-allocation device, display, initialisation, presentation
\* surface, configuration choice, rendering surface, rendering context,
\* make-current; when the k-th fails, exactly what the calls before it
\* acquired is released, each once, in reverse order of acquisition,
\* nothing that was never acquired is released, and no swap chain is
\* returned.
C23_UnwindsInReverse ==
    LET k == Len(stat.ctx_calls)
        order == <<"gbm_create_device", "eglGetDisplay", "eglInitialize",
                   "create_gbm_surface", "choose_egl_config",
                   "create_egl_surface", "create_egl_context",
                   "eglMakeCurrent">>
    IN  /\ stat.ctx_calls = SubSeq(order, 1, k)
        /\ stat.ctx_released # <<>>
             => /\ stat.ctx_released = Reverse(AcquiredInOrder(k))
                /\ winsys_context = NULL
                /\ \A r \in ContextResources :
                     /\ acq[r] = (IF \E i \in 1..Len(stat.ctx_released) :
                                        stat.ctx_released[i] = r
                                  THEN 1 ELSE 0)
                     /\ rel[r] = acq[r]
        /\ stat.ctx_released = <<>> /\ k > 0
             => k = 8 /\ \A r \in ContextResources : rel[r] = 0 \/ stat.torn

\* C23 witness: create_egl_surface failed; the presentation surface, the
\* display and the buffer-allocation device were released in that order,
\* then the context structure.
C23_Witness ==
    /\ pc = "connect_error"
    /\ Len(stat.ctx_calls) = 6
    /\ stat.ctx_released = <<"gbm_surface", "edpy", "gbm", "context">>

\* C24: at most one buffer is locked from the presentation surface without
\* being the displayed one, so never more than two buffers are locked, and
\* between two calls of swap at most one is.
C24_AtMostOnePendingLock ==
    /\ Cardinality(locked \ {current_bo}) <= 1
    /\ Cardinality(locked) <= 2
    /\ pc = "loop_top" => Cardinality(locked) <= 1

\* C25: when drmModeAddFB fails, swap releases the lock on the buffer it
\* just locked, returns, and leaves the current buffer, the current
\* framebuffer id, the capture and the pending-flip flag as they were,
\* with no modeset and no page flip issued.
C25_RegistrationFailureUnlocks ==
    [][pc = "addfb" /\ pc' = "loop_top"
          => /\ locked' = locked \ {bo}
             /\ UNCHANGED <<current_bo, current_fb_id, saved_crtc,
                            saved_buffer_id, pending_swap>>
             /\ stat'.modeset_calls = stat.modeset_calls
             /\ stat'.flip_calls = stat.flip_calls]_vars

\* The chosen mode had been applied when the call of swap in progress
\* began (the binding was in the Flipping state).  At page_flip a modeset
\* of this call has succeeded.
FlippingAtEntry == stat.modeset_ok - stat.call_modesets >= 1

\* C26: when drmModePageFlip is rejected in the Flipping state, the call
\* of swap returns without waiting, having left the current buffer, the
\* current framebuffer id, the captured prior configuration and the
\* pending-flip flag as they were when it began, and the loop goes on
\* with the next frame.
C26_RejectedFlipChangesNothing ==
    [][pc = "page_flip" /\ pc' = "loop_top" /\ FlippingAtEntry
          => /\ stat'.flip_calls = stat.flip_calls + 1
             /\ UNCHANGED <<current_bo, current_fb_id, saved_crtc,
                            saved_buffer_id, pending_swap, quit, ret>>
             /\ ~stat.call_captured]_vars

\* The candidate encoders, in the connector's order, that are retrieved
\* and permit a controller that exists.
Permitting ==
    {i \in 1..Len(conn_encoders) :
       /\ conn_encoders[i].present
       /\ \E j \in 0..(Len(res_crtcs) - 1) :
            j \in conn_encoders[i].possible_crtcs /\ res_crtcs[j + 1] > 0}

\* The controller the search has to bind, 0 for NoCrtc: the one assigned
\* to the attached encoder, else the one at the lowest permitted index of
\* the earliest permitting candidate.
ExpectedCrtc ==
    IF /\ conn_encoder.encoder_id # 0
       /\ conn_encoder.present
       /\ conn_encoder.crtc_id > 0
    THEN conn_encoder.crtc_id
    ELSE IF Permitting = {} THEN 0
    ELSE LET i == CHOOSE a \in Permitting : \A b \in Permitting : a <= b
             J == {j \in 0..(Len(res_crtcs) - 1) :
                     /\ j \in conn_encoders[i].possible_crtcs
                     /\ res_crtcs[j + 1] > 0}
         IN  res_crtcs[(CHOOSE j \in J : \A k \in J : j <= k) + 1]

\* C27: for every topology the controller search ends by binding the
\* controller assigned to the attached encoder if there is one, else the
\* controller at the lowest permitted index of the earliest retrievable
\* candidate encoder that permits an existing controller, and it fails
\* with NoCrtc exactly when no candidate permits an existing controller.
C27_BindsExpectedController ==
    /\ crtc_pc # "crash"
    /\ crtc_pc = "return_0" => ExpectedCrtc # 0 /\ dev_crtc = ExpectedCrtc
    /\ crtc_pc = "return_ENOENT" => ExpectedCrtc = 0

\* C28: on every exit path the swap chain (the current pair, the
\* rendering context and surface, the presentation surface, the display,
\* the buffer-allocation device) is destroyed before the output binding is
\* released and the device handle is closed after both, and once the
\* binding is released or the handle closed no framebuffer of the swap
\* chain is left registered and nothing of its context is left allocated.
C28_SwapChainBindingHandle ==
    LET log == stat.teardown
        At(r) == {i \in 1..Len(log) : log[i] = r}
        chain == (ContextResources \cup {"current_pair"})
    IN  /\ \A i \in At("dev") : \A r \in chain : \A j \in At(r) : j < i
        /\ \A i \in At("fd") : \A j \in 1..Len(log) : j # i => j < i
        /\ At("dev") \cup At("fd") # {}
             => /\ registered = {}
                /\ \A r \in ContextResources : rel[r] = acq[r]

\* C29: the prior controller configuration is captured once, before any
\* modeset of the pipeline has taken effect, and is not overwritten
\* before teardown; what is captured, and written back at teardown, is
\* the configuration the controller had before the first modeset of the
\* pipeline, and after teardown no capture remains.
C29_CaptureIsPriorConfiguration ==
    /\ [][saved_crtc' # NULL /\ (saved_crtc' # saved_crtc
                                  \/ saved_buffer_id' # saved_buffer_id)
            => saved_crtc = NULL /\ stat.modeset_ok = 0]_vars
    /\ [](saved_crtc # NULL => saved_buffer_id = Prior)
    /\ [][stat'.restores > stat.restores => saved_buffer_id = Prior]_vars
    /\ [](stat.torn => saved_crtc = NULL)

\* C30: for any advertised mode list and any requested layout, the
\* selection and the layout computation that follows it never reach the
\* unrecognized-packing branch of get_layout_for_mode, and never
\* dereference a missing entry of the packing-name table.
C30_NoFatalBranchNoMissingName ==
    /\ lay_pc \notin {"abort", "return_unset", "crash"}
    /\ find_pc # "crash"

\* C31: a freshly created swap chain records no current framebuffer and
\* no current buffer, so the release step of the first completed present,
\* and a teardown before any present completed, unregister no framebuffer
\* and release no buffer.
C31_FreshSwapChainIsEmpty ==
    /\ [][pc = "prepare_context" /\ pc' = "connected"
            => current_fb_id' = 0 /\ current_bo' = 0]_vars
    /\ [][stat.presents_done = 0
           /\ ((pc = "swap_finish" /\ pc' # pc) \/ (~stat.torn /\ stat'.torn))
            => /\ registered' = registered
               /\ locked' = locked
               /\ ~stat'.invalid_release]_vars

\* C32: a page flip is requested only after a modeset of the chosen mode
\* has succeeded on the binding, and a present that follows a failed
\* modeset, none having succeeded, issues the modeset again and not a
\* page flip.
C32_FlipOnlyAfterModeset ==
    /\ [][stat'.flip_calls > stat.flip_calls => stat.modeset_ok >= 1]_vars
    /\ [][pc = "addfb" /\ pc' # "loop_top" /\ pc' # pc
            /\ stat.modeset_ok = 0
            => pc' = "set_initial_crtc"]_vars

\* The viewport v lies inside the buffer of layout l.
InsideBuffer(v, l) ==
    /\ v.x >= 0 /\ v.y >= 0
    /\ v.x + v.width <= l.buffer_width
    /\ v.y + v.height <= l.buffer_height

\* The pixels of viewport v that are pixels of the buffer of layout l: the
\* ranges of their columns and rows.
BufferColumns(v, l) ==
    {c \in v.x..(v.x + v.width - 1) : c < l.buffer_width}

BufferRows(v, l) ==
    {r \in v.y..(v.y + v.height - 1) : r < l.buffer_height}

\* No pixel belongs to both viewports.
NoOverlap(v, w) ==
    \/ v.width = 0 \/ v.height = 0 \/ w.width = 0 \/ w.height = 0
    \/ v.x + v.width <= w.x \/ w.x + w.width <= v.x
    \/ v.y + v.height <= w.y \/ w.y + w.height <= v.y

\* C33: for a mode with positive active size and vtotal >= vdisplay, with
\* packing SideBySideHalf, SideBySideFull, TopAndBottom or FramePacking
\* the two viewports set_eye selects lie inside the buffer and share no
\* pixel; with packing None the left viewport is the whole buffer and the
\* right one contains no pixel of it.
C33_ViewportsInsideAndDisjoint ==
    LET left == set_eye(layout, 0)
        right == set_eye(layout, 1)
    IN  /\ LayoutReturned
        /\ lay_mode.hdisplay > 0
        /\ lay_mode.vdisplay > 0
        /\ lay_mode.vtotal >= lay_mode.vdisplay
        => /\ lay_mode.flags # "NONE"
                => /\ InsideBuffer(left, layout)
                   /\ InsideBuffer(right, layout)
                   /\ NoOverlap(left, right)
           /\ lay_mode.flags = "NONE"
                => /\ left = [x |-> 0, y |-> 0,
                              width |-> layout.buffer_width,
                              height |-> layout.buffer_height]
                   /\ \/ BufferColumns(right, layout) = {}
                      \/ BufferRows(right, layout) = {}

\* C33 witness: a frame-packed 1920x1080 mode with 1125 total lines has
\* been laid out; the left eye starts at row 1125, above the right eye.
C33_Witness ==
    /\ LayoutReturned
    /\ lay_mode = [flags |-> "FRAME_PACKING", hdisplay |-> 1920,
                   vdisplay |-> 1080, vtotal |-> 1125]
    /\ set_eye(layout, 0).y = 1125
    /\ set_eye(layout, 1).y = 0

\* C34: in the controller search every encoder object obtained is freed
\* exactly once on every path, no field of an encoder object is read after
\* the object was freed, and an encoder lookup that returned nothing is
\* never dereferenced.
C34_EncodersFreedOnceNeverReadAfter ==
    /\ crtc_pc \in {"return_0", "return_ENOENT"} => enc_live = 0
    /\ freed_reads = 0
    /\ crtc_pc # "crash"

====
